---- MODULE Spec2Model ----
(***************************************************************************)
(* Model of src/main.py: the job that mirrors the maintenance windows of   *)
(* the SWITCH registry feed onto a Statuspage page.                        *)
(*                                                                         *)
(* Time is counted in whole hours since 2021-01-01 00:00.  A registry      *)
(* timestamp string is represented by the list of its space-separated      *)
(* fields, an ISO-8601 string by its local time and its offset suffix.     *)
(***************************************************************************)
EXTENDS Integers, Sequences, FiniteSets, TLC

VARIABLES
    today,                  \* datetime.date.today() of the runs
    feed,                   \* r.json()["availability"] of the registry
    incidents,              \* scheduled incidents held by the status page
    run,                    \* number of the current run of main()
    pc,                     \* position of the current run
    switch_maintenance,     \* main(): switch_maintenance
    out,                    \* get_statuspage_maintenance(): out
    page,                   \* get_statuspage_maintenance(): page
    statuspage_maintenance, \* main(): statuspage_maintenance
    done,                   \* number of windows the for loop of main() has finished
    requests,               \* HTTP requests issued by the current run, in order
    prev,                   \* outcome and requests of the previous run
    ts,                     \* argument of parse_switch_timestamp under test
    parsed                  \* its outcome

vars == <<today, feed, incidents, run, pc, switch_maintenance, out, page,
          statuspage_maintenance, done, requests, prev, ts, parsed>>

runVars == <<today, feed, incidents, run, pc, switch_maintenance, out, page,
             statuspage_maintenance, done, requests, prev>>

(***************************************************************************)
(* Bounds of the model.                                                    *)
(***************************************************************************)
MaxFeed == 2
MaxIncidents == 2
MaxRuns == 2
MaxPageRequests == 3

(***************************************************************************)
(* Generic helpers.                                                        *)
(***************************************************************************)
Range(s) == {s[k] : k \in DOMAIN s}

SeqsUpTo(S, n) == UNION {[1..k -> S] : k \in 0..n}

RECURSIVE Reverse(_)
Reverse(s) == IF s = <<>> THEN <<>> ELSE Append(Reverse(Tail(s)), Head(s))

(***************************************************************************)
(* The zone database the program reads through pytz.                       *)
(***************************************************************************)
\* pytz.all_timezones (sorted)
all_timezones == <<"CET", "Europe/Zurich", "MET", "PRC", "ROC", "UTC">>

\* tzone._transition_info: (utcoffset, dst, tzabbrev); absent for static zones
HasTransitionInfo(name) == name # "UTC"

transition_info(name) ==
    CASE name = "CET"           -> {<<1, 0, "CET">>, <<2, 1, "CEST">>}
      [] name = "Europe/Zurich" -> {<<0, 0, "LMT">>, <<0, 0, "BMT">>,
                                    <<1, 0, "CET">>, <<2, 1, "CEST">>}
      [] name = "MET"           -> {<<1, 0, "MET">>, <<2, 1, "MEST">>}
      [] name = "PRC"           -> {<<8, 0, "LMT">>, <<8, 0, "CST">>, <<9, 1, "CDT">>}
      [] name = "ROC"           -> {<<8, 0, "LMT">>, <<8, 0, "CST">>, <<9, 0, "JST">>,
                                    <<9, 1, "CDT">>}
      [] OTHER                  -> {}

\* datetime.datetime.now(tzone).tzname() of a zone without transitions
CurrentAbbrev(name) == name

\* Standard offset of a zone in 2021 and whether it observes daylight saving
StdOffset(name) ==
    CASE name \in {"CET", "Europe/Zurich", "MET"} -> 1
      [] name \in {"PRC", "ROC"}                  -> 8
      [] OTHER                                    -> 0

ObservesDst(name) == name \in {"CET", "Europe/Zurich", "MET"}

\* 2021-03-28 01:00 UTC and 2021-10-31 01:00 UTC
DstStartUtc == (59 + 27) * 24 + 1
DstEndUtc == (273 + 30) * 24 + 1

\* Offset in force in a zone at a UTC instant
OffsetAtUtc(name, u) ==
    IF ObservesDst(name) /\ DstStartUtc <= u /\ u < DstEndUtc
    THEN StdOffset(name) + 1
    ELSE StdOffset(name)

\* The offsets under which a naive local time exists in a zone
LocalOffsets(name, t) ==
    {o \in {StdOffset(name), StdOffset(name) + 1} : OffsetAtUtc(name, t - o) = o}

(***************************************************************************)
(* str.upper(), int() and str() on the strings of the model.               *)
(***************************************************************************)
Upper(s) ==
    CASE s = "cest" -> "CEST"
      [] s = "Cet"  -> "CET"
      [] s = "cst"  -> "CST"
      [] OTHER      -> s

IntLiterals == {"2", "+2", "-3", "0"}

IntOf(s) ==
    CASE s = "2"  -> 2
      [] s = "+2" -> 2
      [] s = "-3" -> 0 - 3
      [] s = "0"  -> 0

StrOf(n) ==
    CASE n = 2     -> "2"
      [] n = 0 - 3 -> "-3"
      [] n = 0     -> "0"

(***************************************************************************)
(* get_timezone_name (src/main.py:27-50).  The result is a pytz zone       *)
(* (kind "tz"), a plain string (kind "str") or a raised exception.         *)
(***************************************************************************)
\* Orders in which a set of zone objects may be iterated (hash dependent)
SetOrders == {all_timezones, Reverse(all_timezones)}

PosIn(order, name) == CHOOSE k \in DOMAIN order : order[k] = name

MinByLen_Longest(set_zones, order) ==
    CHOOSE z \in set_zones :
        \A y \in set_zones :
            \/ Len(z) > Len(y)
            \/ Len(z) = Len(y) /\ PosIn(order, z) <= PosIn(order, y)

\* min(set_zones, key=lambda z: len(z.zone)): first minimum in iteration order
MinByLen(set_zones, order) ==
    CHOOSE z \in set_zones :
        \A y \in set_zones :
            \/ Len(z) < Len(y)
            \/ Len(z) = Len(y) /\ PosIn(order, z) <= PosIn(order, y)

\* the abbreviations scanned for one zone (lines 44-46)
AbbrevsOf(name) ==
    IF HasTransitionInfo(name)
    THEN {info[3] : info \in transition_info(name)}
    ELSE {CurrentAbbrev(name)}

\* lines 41-48
set_zones(timezone) ==
    {name \in Range(all_timezones) :
        \E tzabbrev \in AbbrevsOf(name) : Upper(tzabbrev) = Upper(timezone)}

get_timezone_name_default(timezone, order) ==
    IF timezone \in Range(all_timezones) \/ set_zones(timezone) = {}
    THEN [kind |-> "tz", zone |-> IF timezone \in Range(all_timezones)
                                  THEN timezone ELSE "UTC"]
    ELSE [kind |-> "tz", zone |-> MinByLen(set_zones(timezone), order)]

get_timezone_name(timezone, order) ==
    IF timezone \in Range(all_timezones)
    THEN [kind |-> "tz", zone |-> timezone]
    ELSE IF timezone \in IntLiterals
    THEN LET offset == IntOf(timezone)
         IN  [kind |-> "str",
              zone |-> "Etc/GMT" \o (IF offset > 0 THEN "+" \o StrOf(offset)
                                                   ELSE StrOf(offset))]
    ELSE LET zones == set_zones(timezone)
         IN  IF zones = {}
             THEN [kind |-> "raise", zone |-> "ValueError"]
             ELSE [kind |-> "tz", zone |-> MinByLen(zones, order)]

(***************************************************************************)
(* parse_switch_timestamp (src/main.py:53-60).                             *)
(***************************************************************************)
Months == {"Jan", "Mar", "Jul", "Oct"}
Weekdays == {"Mon", "Sun"}
Days == {"1", "28", "31"}
Times == {"02:00:00", "12:00:00", "23:00:00"}
Years == {"2021"}

\* days of 2021 before the first of the month
MonthStart(mon) ==
    CASE mon = "Jan" -> 0
      [] mon = "Mar" -> 59
      [] mon = "Jul" -> 181
      [] mon = "Oct" -> 273

DayOf(d) ==
    CASE d = "1"  -> 1
      [] d = "28" -> 28
      [] d = "31" -> 31

HourOf(h) ==
    CASE h = "02:00:00" -> 2
      [] h = "12:00:00" -> 12
      [] h = "23:00:00" -> 23

\* datetime.strptime(new_ts, "%a %b %d %H:%M:%S %Y"): the naive local time, or
\* ValueError when the fields do not fit the pattern
strptime(new_ts) ==
    IF /\ Len(new_ts) = 5
       /\ new_ts[1] \in Weekdays
       /\ new_ts[2] \in Months
       /\ new_ts[3] \in Days
       /\ new_ts[4] \in Times
       /\ new_ts[5] \in Years
    THEN [ok |-> TRUE,
          t  |-> (MonthStart(new_ts[2]) + DayOf(new_ts[3]) - 1) * 24 + HourOf(new_ts[4])]
    ELSE [ok |-> FALSE, t |-> 0]

\* actual_tz.utcoffset(parsed_ts) of a pytz zone on a naive time (is_dst=None):
\* the offset in force at that local time; raises for a local time that does
\* not exist or that occurs twice
tz_utcoffset_fixed(zone, t) ==
    [ok |-> TRUE, offset |-> StdOffset(zone)]

tz_utcoffset(zone, t) ==
    IF ~ObservesDst(zone)
    THEN [ok |-> TRUE, offset |-> StdOffset(zone)]
    ELSE IF Cardinality(LocalOffsets(zone, t)) = 1
    THEN [ok |-> TRUE, offset |-> CHOOSE o \in LocalOffsets(zone, t) : TRUE]
    ELSE [ok |-> FALSE, offset |-> 0]

\* parts[-2] (line 55)
TzField(parts) == parts[Len(parts) - 1]

\* parts[:-2] + parts[-1:] (line 57)
DropTzField(parts) ==
    SubSeq(parts, 1, Len(parts) - 2) \o SubSeq(parts, Len(parts), Len(parts))

Raise(e) == [ok |-> FALSE, err |-> e, t |-> 0]

parse_switch_timestamp(parts, order) ==
    IF Len(parts) < 2
    THEN Raise("IndexError")
    ELSE LET actual_tz == get_timezone_name(TzField(parts), order)
             parsed_ts == strptime(DropTzField(parts))
         IN  IF actual_tz.kind = "raise"
             THEN Raise(actual_tz.zone)
             ELSE IF ~parsed_ts.ok
             THEN Raise("ValueError")
             ELSE IF actual_tz.kind = "str"
             THEN Raise("AttributeError")
             ELSE LET off == tz_utcoffset(actual_tz.zone, parsed_ts.t)
                  IN  IF off.ok
                      THEN [ok |-> TRUE, err |-> "", t |-> parsed_ts.t - off.offset]
                      ELSE Raise("InvalidTimeError")

(***************************************************************************)
(* The registry feed: records of r.json()["availability"].                 *)
(***************************************************************************)
Stamp(mon, time, tz) == <<"Mon", mon, "1", time, tz, "2021">>

DataMessage(systems, env, from, to) ==
    [type |-> "DATA_MESSAGE", concernedSystem |-> systems, environment |-> env,
     from |-> from, to |-> to]

FeedRecords ==
    { DataMessage(<<"epp.nic.ch">>, "production",
                  Stamp("Jul", "12:00:00", "CEST"), Stamp("Jul", "23:00:00", "CEST")),
      DataMessage(<<"whois.nic.ch", "epp.nic.ch">>, "production",
                  Stamp("Jan", "12:00:00", "CET"), Stamp("Jan", "23:00:00", "CET")),
      DataMessage(<<"epp.nic.ch">>, "test",
                  Stamp("Jul", "12:00:00", "CEST"), Stamp("Jul", "23:00:00", "CEST")),
      DataMessage(<<"whois.nic.ch">>, "production",
                  Stamp("Jan", "12:00:00", "CET"), Stamp("Jan", "23:00:00", "CET")),
      DataMessage(<<"epp.nic.ch">>, "production",
                  Stamp("Jul", "12:00:00", "ZZZ"), Stamp("Jul", "23:00:00", "CEST")),
      DataMessage(<<"whois.nic.ch">>, "test",
                  Stamp("Jul", "12:00:00", "CEST"), Stamp("Jul", "23:00:00", "ZZZ")),
      [type |-> "INFO_MESSAGE", concernedSystem |-> <<"epp.nic.ch">>,
       environment |-> "production",
       from |-> Stamp("Jul", "12:00:00", "CEST"), to |-> Stamp("Jul", "23:00:00", "CEST")] }

(***************************************************************************)
(* The status page.  An ISO-8601 string is [t |-> local time, suffix |->   *)
(* "Z" or an offset such as "+02:00"].                                     *)
(***************************************************************************)
Iso(t, suffix) == [t |-> t, suffix |-> suffix]

\* m["scheduled_for"].replace("Z", "+00:00") (line 130)
ReplaceZ(suffix) == IF suffix = "Z" THEN "+00:00" ELSE suffix

SuffixOffset(suffix) ==
    CASE suffix = "+00:00" -> 0
      [] suffix = "+02:00" -> 2

\* datetime.datetime.fromisoformat(...): an aware datetime, given here by its
\* UTC instant, which is what equality of aware datetimes compares
fromisoformat_naive(s) == s.t

fromisoformat(s) == s.t - SuffixOffset(ReplaceZ(s.suffix))

isoformat_shifted(u) == Iso(u, "+02:00")

\* datetime.isoformat() of an aware UTC datetime: "...+00:00"
isoformat(u) == Iso(u, "+00:00")

Incident(status, impact, for, until) ==
    [status |-> status, impact |-> impact, scheduled_for |-> for, scheduled_until |-> until]

\* 2021-07-01 10:00 UTC and 2021-01-01 11:00 UTC, the starts of the feed's windows
JulStart == 181 * 24 + 12 - 2
JanStart == 12 - 1

IncidentKinds ==
    { Incident("scheduled", "maintenance", Iso(JulStart, "Z"), Iso(JulStart + 1, "Z")),
      Incident("scheduled", "maintenance", Iso(JulStart, "+02:00"), Iso(JulStart + 1, "+02:00")),
      Incident("scheduled", "none", Iso(JulStart, "Z"), Iso(JulStart + 1, "Z")),
      Incident("in_progress", "maintenance", Iso(JulStart, "Z"), Iso(JulStart + 1, "Z")) }

\* the service numbers the incidents it holds
WithIds(kinds) ==
    [k \in DOMAIN kinds |->
        [id |-> k, status |-> kinds[k].status, impact |-> kinds[k].impact,
         scheduled_for |-> kinds[k].scheduled_for,
         scheduled_until |-> kinds[k].scheduled_until]]

\* the page size of the service, which the loop compares with (line 102)
PageSize == 100

\* a page holding n further maintenances, none at a start of the feed
LongPage(n) ==
    [k \in 1..n |-> Incident("scheduled", "maintenance",
                             Iso(JulStart + 100 + k, "Z"), Iso(JulStart + 101 + k, "Z"))]

LongSizes == {PageSize - 1, PageSize, PageSize + 1}

Servers ==
    {WithIds(kinds) : kinds \in SeqsUpTo(IncidentKinds, MaxIncidents)}
    \cup {WithIds(LongPage(n)) : n \in LongSizes}

\* GET .../incidents/scheduled?page=p: the p-th slice of PageSize incidents
ServicePage(held, p) ==
    SubSeq(held, (p - 1) * PageSize + 1,
           IF p * PageSize < Len(held) THEN p * PageSize ELSE Len(held))

\* the suffix with which the service writes the times of an incident it stores
\* (the time zone the page is displayed in)
PageSuffix == "+02:00"

\* the instant an ISO-8601 string denotes, as the service reads it
InstantOf(s) == IF s.suffix = "Z" THEN s.t ELSE s.t - SuffixOffset(s.suffix)

Render(s) == Iso(InstantOf(s) + SuffixOffset(PageSuffix), PageSuffix)

\* POST .../incidents: the service stores the payload as a new incident
ServiceCreate(held, payload) ==
    Append(held, [id |-> Len(held) + 1,
                  status |-> payload.status,
                  impact |-> payload.impact_override,
                  scheduled_for |-> Render(payload.scheduled_for),
                  scheduled_until |-> Render(payload.scheduled_until)])

\* PATCH .../incidents/{id}: the service overwrites the incident's fields
ServiceUpdate(held, id, payload) ==
    [k \in DOMAIN held |->
        IF held[k].id = id
        THEN [id |-> id,
              status |-> payload.status,
              impact |-> payload.impact_override,
              scheduled_for |-> Render(payload.scheduled_for),
              scheduled_until |-> Render(payload.scheduled_until)]
        ELSE held[k]]

(***************************************************************************)
(* HTTP requests as the run issues them.                                   *)
(***************************************************************************)
NoPayload == [scheduled_for |-> Iso(0, "Z"), scheduled_until |-> Iso(0, "Z"),
              name |-> "", status |-> "", impact_override |-> ""]

\* w is the position in switch_maintenance of the window a write is made for
NoParams == [start |-> <<>>, end |-> <<>>]

Request(method, url, page_, id, w, payload, ok) ==
    [method |-> method, url |-> url, params |-> NoParams, page |-> page_, id |-> id,
     w |-> w, payload |-> payload, ok |-> ok]

Get(url, page_, ok) == Request("GET", url, page_, 0, 0, NoPayload, ok)

IsWrite(r) == r.method \in {"POST", "PATCH"}
IsPageGet(r) == r.method = "GET" /\ r.url = "incidents/scheduled"

\* r.raise_for_status() (lines 72, 96, 162, 172): where the run goes after a
\* response; a non-success status raises, and nothing catches it
raise_for_status_ignored(ok, next) == next

raise_for_status(ok, next) == IF ok THEN next ELSE "aborted"

(***************************************************************************)
(* get_switch_maintenance (src/main.py:63-83).                             *)
(***************************************************************************)
IsDataMessage(m) == m.type = "DATA_MESSAGE"

\* parse_switch_timestamp tabulated over the timestamps the feed can carry
FeedStamps == {m.from : m \in FeedRecords} \cup {m.to : m \in FeedRecords}

Parsed == [order \in SetOrders |->
              [stamp \in FeedStamps |-> parse_switch_timestamp(stamp, order)]]

\* lines 75-82; concernedSystem is held as the list of its ", "-separated items
SWITCHMaintenance(m, order) ==
    [systems     |-> m.concernedSystem,
     environment |-> m.environment,
     from_time   |-> Parsed[order][m.from].t,
     to_time     |-> Parsed[order][m.to].t]

Raises(m, order) ==
    \/ ~Parsed[order][m.from].ok
    \/ ~Parsed[order][m.to].ok

\* lines 73-83: the windows of the feed, unless a timestamp raises
Windows(availability, order) ==
    LET data == SelectSeq(availability, IsDataMessage)
    IN  IF \E k \in DOMAIN data : Raises(data[k], order)
        THEN [ok |-> FALSE, list |-> <<>>]
        ELSE [ok |-> TRUE,
              list |-> [k \in DOMAIN data |-> SWITCHMaintenance(data[k], order)]]

\* the days on which the job runs: an ordinary day and the 29 February of a
\* leap year
Dates == {[day |-> 1, month |-> 7, year |-> 2021],
          [day |-> 29, month |-> 2, year |-> 2024]}

IsLeap(y) == (y % 4 = 0 /\ y % 100 # 0) \/ y % 400 = 0

\* date.replace(year=y): ValueError when the day does not exist in year y
replace_year(d, y) ==
    IF d.month = 2 /\ d.day = 29 /\ ~IsLeap(y)
    THEN [ok |-> FALSE, date |-> d]
    ELSE [ok |-> TRUE, date |-> [d EXCEPT !.year = y]]

\* date.strftime("%d-%m-%Y"): the fields in that order
strftime(d) == <<d.day, d.month, d.year>>

\* lines 67-71
GetAvailability(start, end, ok) ==
    [Get("availability", 0, ok) EXCEPT !.params = [start |-> strftime(start),
                                                   end   |-> strftime(end)]]

get_switch_maintenance ==
    /\ pc = "start"
    /\ LET today_next_year == replace_year(today, today.year + 1)
       IN  IF ~today_next_year.ok
           THEN /\ requests' = requests
                /\ switch_maintenance' = <<>>
                /\ pc' = "aborted"
           ELSE \E ok \in BOOLEAN, order \in SetOrders :
                  /\ requests' = Append(requests,
                                        GetAvailability(today, today_next_year.date, ok))
                  /\ IF raise_for_status(ok, "parse") = "aborted"
                     THEN /\ switch_maintenance' = <<>>
                          /\ pc' = "aborted"
                     ELSE LET windows == Windows(feed, order)
                          IN  /\ switch_maintenance' = windows.list
                              /\ pc' = IF windows.ok THEN "get_statuspage"
                                                     ELSE "aborted"
    /\ out' = <<>>
    /\ page' = 1
    /\ UNCHANGED <<today, feed, incidents, run, statuspage_maintenance, done, prev, ts, parsed>>

(***************************************************************************)
(* get_statuspage_maintenance (src/main.py:86-106) and the filters of      *)
(* main (lines 120-125), one step per page request.                        *)
(***************************************************************************)
\* line 100 calls get_page() without an argument: its default page=1 is sent
get_page_param(page_) == 1

\* line 106
ImpactFilter(e) == e.impact = "maintenance"

\* line 121
WindowFilter_EnvOnly(m) == m.environment = "production"

WindowFilter_SystemOnly(m) == "epp.nic.ch" \in Range(m.systems)

WindowFilter(m) ==
    m.environment = "production" /\ "epp.nic.ch" \in Range(m.systems)

\* line 124
StatusFilter_Any(m) == TRUE

StatusFilter(m) == m.status = "scheduled"

NumPageGets(reqs) == Len(SelectSeq(reqs, IsPageGet))

get_statuspage_maintenance ==
    /\ pc = "get_statuspage"
    /\ NumPageGets(requests) < MaxPageRequests
    /\ \E ok \in BOOLEAN :
         /\ requests' = Append(requests, Get("incidents/scheduled", get_page_param(page), ok))
         /\ LET new_data == IF ok THEN ServicePage(incidents, get_page_param(page)) ELSE <<>>
                all      == out \o new_data
                windows  == SelectSeq(switch_maintenance, WindowFilter)
            IN  IF raise_for_status(ok, "extend") = "aborted"
                THEN /\ pc' = "aborted"
                     /\ UNCHANGED <<out, page, statuspage_maintenance, switch_maintenance>>
                ELSE /\ out' = all
                     /\ IF Len(new_data) # PageSize
                        THEN /\ statuspage_maintenance' =
                                    SelectSeq(SelectSeq(all, ImpactFilter), StatusFilter)
                             /\ switch_maintenance' = windows
                             /\ pc' = IF windows = <<>> THEN "done" ELSE "reconcile"
                             /\ page' = page
                        ELSE /\ page' = page + 1
                             /\ pc' = "get_statuspage"
                             /\ UNCHANGED <<statuspage_maintenance, switch_maintenance>>
    /\ done' = 0
    /\ UNCHANGED <<today, feed, incidents, run, prev, ts, parsed>>

(***************************************************************************)
(* The for loop of main (src/main.py:127-172), one step per window.        *)
(***************************************************************************)
\* line 131
Matches(m, switch_m) == fromisoformat(m.scheduled_for) = switch_m.from_time

FirstMatch(snapshot, switch_m) ==
    IF \E k \in DOMAIN snapshot : Matches(snapshot[k], switch_m)
    THEN CHOOSE k \in DOMAIN snapshot :
            /\ Matches(snapshot[k], switch_m)
            /\ \A j \in DOMAIN snapshot : Matches(snapshot[j], switch_m) => k <= j
    ELSE 0

\* lines 128-132: position of the incident statuspage_m is left bound to, 0 for None
LastMatch(snapshot, switch_m) ==
    IF \E k \in DOMAIN snapshot : Matches(snapshot[k], switch_m)
    THEN CHOOSE k \in DOMAIN snapshot :
            /\ Matches(snapshot[k], switch_m)
            /\ \A j \in DOMAIN snapshot : Matches(snapshot[j], switch_m) => j <= k
    ELSE 0

\* lines 134-151; the auto_* flags and component_ids are constants of every payload
incident_data_no_impact(switch_m) ==
    [scheduled_for   |-> isoformat(switch_m.from_time),
     scheduled_until |-> isoformat(switch_m.to_time),
     name            |-> "SWITCH Maintenance",
     status          |-> "scheduled",
     impact_override |-> "none"]

incident_data(switch_m) ==
    [scheduled_for   |-> isoformat(switch_m.from_time),
     scheduled_until |-> isoformat(switch_m.to_time),
     name            |-> "SWITCH Maintenance",
     status          |-> "scheduled",
     impact_override |-> "maintenance"]

\* lines 153-172: the request written for a window
WriteRequest_PatchFirst(snapshot, switch_m, w, ok) ==
    IF snapshot # <<>>
    THEN Request("PATCH", "incidents/id", 0, snapshot[1].id, w,
                 incident_data(switch_m), ok)
    ELSE Request("POST", "incidents", 0, 0, w, incident_data(switch_m), ok)

WriteRequest_AlwaysPost(snapshot, switch_m, w, ok) ==
    Request("POST", "incidents", 0, 0, w, incident_data(switch_m), ok)

WriteRequest(snapshot, switch_m, w, ok) ==
    LET k == LastMatch(snapshot, switch_m)
    IN  IF k # 0
        THEN Request("PATCH", "incidents/id", 0, snapshot[k].id, w,
                     incident_data(switch_m), ok)
        ELSE Request("POST", "incidents", 0, 0, w, incident_data(switch_m), ok)

\* the effect of a successful write on the status page
Apply(held, r) ==
    IF r.method = "PATCH"
    THEN ServiceUpdate(held, r.id, r.payload)
    ELSE ServiceCreate(held, r.payload)

reconcile ==
    /\ pc = "reconcile"
    /\ \E ok \in BOOLEAN :
         LET r == WriteRequest(statuspage_maintenance, switch_maintenance[done + 1],
                               done + 1, ok)
         IN  /\ requests' = Append(requests, r)
             /\ incidents' = IF ok THEN Apply(incidents, r) ELSE incidents
             /\ IF raise_for_status(ok, "next") = "aborted"
                THEN /\ pc' = "aborted"
                     /\ done' = done
                ELSE /\ done' = done + 1
                     /\ pc' = IF done + 1 = Len(switch_maintenance) THEN "done"
                                                                    ELSE "reconcile"
    /\ UNCHANGED <<today, feed, run, switch_maintenance, out, page,
                   statuspage_maintenance, prev, ts, parsed>>

(***************************************************************************)
(* The next scheduled run of the job: a new process over the same feed and *)
(* the status page as the runs before it left it.                          *)
(***************************************************************************)
NoRun == [pc |-> "none", requests |-> <<>>, windows |-> <<>>]

next_run ==
    /\ pc \in {"done", "aborted"}
    /\ run < MaxRuns
    /\ prev' = [pc |-> pc, requests |-> requests, windows |-> switch_maintenance]
    /\ run' = run + 1
    /\ pc' = "start"
    /\ requests' = <<>>
    /\ switch_maintenance' = <<>>
    /\ out' = <<>>
    /\ page' = 1
    /\ statuspage_maintenance' = <<>>
    /\ done' = 0
    /\ UNCHANGED <<today, feed, incidents, ts, parsed>>

NoTz == [kind |-> "none", zone |-> ""]
NoParse == [state |-> "none", actual_tz |-> NoTz, result |-> Raise(""),
            other_tz |-> NoTz]

Init ==
    /\ today \in Dates
    /\ feed \in SeqsUpTo(FeedRecords, MaxFeed)
    /\ incidents \in Servers
    /\ run = 1
    /\ pc = "start"
    /\ switch_maintenance = <<>>
    /\ out = <<>>
    /\ page = 1
    /\ statuspage_maintenance = <<>>
    /\ done = 0
    /\ requests = <<>>
    /\ prev = NoRun
    /\ ts = <<>>
    /\ parsed = NoParse

Next ==
    \/ get_switch_maintenance
    \/ get_statuspage_maintenance
    \/ reconcile
    \/ next_run

Spec == Init /\ [][Next]_vars

(***************************************************************************)
(* parse_switch_timestamp on its own: one call on a timestamp drawn from   *)
(* the strings of the model.                                               *)
(***************************************************************************)
TzTokens == {"CET", "CEST", "cest", "Europe/Zurich", "MET", "MEST", "BMT", "UTC",
             "PRC", "CST", "cst", "2", "-3", "ZZZ"}

Timestamps ==
    {<<wd, mon, d, time, tz, "2021">> :
        wd \in Weekdays, mon \in Months, d \in Days, time \in Times, tz \in TzTokens}
    \cup {<<"Mon", "Jul", "1", "12:00:00", "2021">>,
          <<"Mon", "Foo", "1", "12:00:00", "CEST", "2021">>,
          <<"12:00:00">>}

parse_call ==
    /\ parsed.state = "none"
    /\ ts # <<>>
    /\ \E order \in SetOrders :
         parsed' = [state     |-> "returned",
                    actual_tz |-> IF Len(ts) < 2 THEN NoTz
                                  ELSE get_timezone_name(TzField(ts), order),
                    result    |-> parse_switch_timestamp(ts, order),
                    other_tz  |-> NoTz]
    /\ UNCHANGED <<runVars, ts>>

\* The same timestamp is parsed by another run of the program, whose zone
\* objects hash differently: line 55 again, with that run's iteration order
parse_call_other_run ==
    /\ parsed.state = "returned"
    /\ Len(ts) >= 2
    /\ \E order \in SetOrders :
         parsed' = [parsed EXCEPT !.state = "returned_twice",
                                  !.other_tz = get_timezone_name(TzField(ts), order)]
    /\ UNCHANGED <<runVars, ts>>

InitParse ==
    /\ ts \in Timestamps
    /\ parsed = NoParse
    /\ today \in {d \in Dates : d.day = 1}
    /\ feed = <<>>
    /\ incidents = <<>>
    /\ run = 0
    /\ pc = "idle"
    /\ switch_maintenance = <<>>
    /\ out = <<>>
    /\ page = 1
    /\ statuspage_maintenance = <<>>
    /\ done = 0
    /\ requests = <<>>
    /\ prev = NoRun

NextParse == parse_call \/ parse_call_other_run

SpecParse == InitParse /\ [][NextParse]_vars

(***************************************************************************)
(* Vocabulary of the properties.                                           *)
(***************************************************************************)
Writes(reqs) == SelectSeq(reqs, IsWrite)

\* a record of the feed that should be mirrored onto the status page
Passes(m) ==
    /\ m.type = "DATA_MESSAGE"
    /\ m.environment = "production"
    /\ \E k \in DOMAIN m.concernedSystem : m.concernedSystem[k] = "epp.nic.ch"

NumPassing == Cardinality({k \in DOMAIN feed : Passes(feed[k])})

\* the fetched incidents that are scheduled maintenances
Eligible == {m \in Range(out) : m.status = "scheduled" /\ m.impact = "maintenance"}

\* the fetched incidents that are scheduled, whatever their impact
Scheduled == {m \in Range(out) : m.status = "scheduled"}

\* the window a write of the current run was made for
WindowOf(r) == switch_maintenance[r.w]

WritesFor(reqs, j) == {k \in DOMAIN reqs : IsWrite(reqs[k]) /\ reqs[k].w = j}

(***************************************************************************)
(* C1: a write for a window is a PATCH exactly when the fetched snapshot   *)
(* holds an eligible incident starting at the very instant of the window's *)
(* from_time, and then it targets the id of such an incident; otherwise it *)
(* is a POST.                                                              *)
(***************************************************************************)
C1_UpdateIffSameInstant ==
    \A k \in DOMAIN requests :
        IsWrite(requests[k]) =>
            LET r    == requests[k]
                same == {m \in Eligible : InstantOf(m.scheduled_for) = WindowOf(r).from_time}
            IN  /\ (r.method = "PATCH") <=> (same # {})
                /\ (r.method = "POST") <=> (same = {})
                /\ r.method = "PATCH" => \E m \in same : m.id = r.id

\* a Create and an Update in one run, with an incident two hours off in the snapshot
C1_Witness ==
    /\ \E k \in DOMAIN requests : requests[k].method = "PATCH"
    /\ \E k \in DOMAIN requests : requests[k].method = "POST"
    /\ \E m \in Eligible : \E k \in DOMAIN requests :
          /\ IsWrite(requests[k])
          /\ InstantOf(m.scheduled_for) = WindowOf(requests[k]).from_time - 2

(***************************************************************************)
(* C2: a run that completes has issued exactly one write for every record  *)
(* of the feed that passes the filter, and no others; a single passing     *)
(* window and no eligible incident give one POST carrying the window's     *)
(* start.                                                                  *)
(***************************************************************************)
C2_OneWritePerWindow ==
    pc = "done" =>
        /\ \A k \in DOMAIN requests : requests[k].ok
        /\ Len(Writes(requests)) = NumPassing
        /\ \A j \in 1..NumPassing : Cardinality(WritesFor(requests, j)) = 1
        /\ (NumPassing = 1 /\ Eligible = {}) =>
              LET r == Writes(requests)[1]
              IN  /\ r.method = "POST"
                  /\ InstantOf(r.payload.scheduled_for) = WindowOf(r).from_time
                  /\ WindowOf(r).from_time \in {JulStart, JanStart}

C2_Witness ==
    /\ pc = "done"
    /\ NumPassing = 1
    /\ Len(feed) = 2
    /\ Eligible = {}
    /\ Len(Writes(requests)) = 1

(***************************************************************************)
(* C3: the run that follows a completed run issues no POST, and handles    *)
(* every window with a PATCH.                                               *)
(***************************************************************************)
C3_SecondRunOnlyUpdates ==
    prev.pc = "done" =>
        /\ \A k \in DOMAIN requests : requests[k].method # "POST"
        /\ pc = "done" =>
              \A j \in 1..NumPassing :
                  \E k \in WritesFor(requests, j) : requests[k].method = "PATCH"

C3_Witness ==
    /\ prev.pc = "done"
    /\ pc = "done"
    /\ \E k \in DOMAIN prev.requests : prev.requests[k].method = "POST"
    /\ Len(Writes(requests)) = 2

(***************************************************************************)
(* C4: every write is made for a window of the production environment that *)
(* lists epp.nic.ch, and there are no more writes than such records.       *)
(***************************************************************************)
C4_FilteredOutNeverWritten ==
    /\ \A k \in DOMAIN requests :
          IsWrite(requests[k]) =>
              /\ WindowOf(requests[k]).environment = "production"
              /\ \E j \in DOMAIN WindowOf(requests[k]).systems :
                    WindowOf(requests[k]).systems[j] = "epp.nic.ch"
    /\ Len(Writes(requests)) <= NumPassing

C4_Witness ==
    /\ pc = "done"
    /\ Len(Writes(requests)) = 1
    /\ \E k \in DOMAIN feed :
          /\ feed[k].type = "DATA_MESSAGE"
          /\ ~Passes(feed[k])

(***************************************************************************)
(* C5 as stated: a fetched incident with status "scheduled" and the start  *)
(* of a window makes the write for that window a PATCH, whatever the       *)
(* incident's impact.                                                      *)
(***************************************************************************)
C5_ScheduledAloneIsEligible ==
    \A k \in DOMAIN requests :
        IsWrite(requests[k]) =>
            ((\E m \in Scheduled :
                  InstantOf(m.scheduled_for) = WindowOf(requests[k]).from_time)
             => requests[k].method = "PATCH")

(***************************************************************************)
(* C5 amended: the incidents matched against are exactly the fetched ones  *)
(* with status "scheduled" and impact "maintenance"; such an incident at   *)
(* the start of a window makes the write for that window a PATCH.          *)
(***************************************************************************)
C5_ScheduledMaintenanceIsEligible ==
    /\ pc \in {"reconcile", "done"} => Range(statuspage_maintenance) = Eligible
    /\ \A k \in DOMAIN requests :
          IsWrite(requests[k]) =>
              /\ Range(statuspage_maintenance) = Eligible
              /\ (\E m \in Eligible :
                      InstantOf(m.scheduled_for) = WindowOf(requests[k]).from_time)
                  => requests[k].method = "PATCH"

\* an Update although the snapshot also holds incidents that are not eligible
C5_Witness ==
    /\ \E k \in DOMAIN requests : requests[k].method = "PATCH"
    /\ \E m \in Range(out) : m.status # "scheduled"
    /\ Scheduled # Eligible

(***************************************************************************)
(* C6 as stated: the k-th request for a page of incidents carries page = k.*)
(***************************************************************************)
C6_SuccessivePages ==
    LET gets == SelectSeq(requests, IsPageGet)
    IN  \A k \in DOMAIN gets : gets[k].page = k

(***************************************************************************)
(* C7 as stated: the loop stops at the first short page, so it never sends *)
(* more requests than the service has pages (counting the short last one). *)
(***************************************************************************)
C7_PaginationTerminates ==
    Len(SelectSeq(requests, IsPageGet)) <= (Len(incidents) \div PageSize) + 1

(***************************************************************************)
(* C8: a request that fails is the last request of its run: the run is     *)
(* aborted by it, sends nothing afterwards, and the failing step and the   *)
(* aborted run leave the incidents of the status page as they were.        *)
(***************************************************************************)
C8_FailFast ==
    [][ /\ (pc = "aborted" /\ run' = run) => (requests' = requests /\ incidents' = incidents)
        /\ (run' = run /\ requests' # requests) =>
              /\ \A k \in DOMAIN requests : requests[k].ok
              /\ SubSeq(requests', 1, Len(requests)) = requests
              /\ ~requests'[Len(requests')].ok => (pc' = "aborted" /\ incidents' = incidents)
        /\ run' # run => incidents' = incidents ]_vars

\* a run aborted by a failed write after a Create that stays on the status page
C8_Witness ==
    /\ pc = "aborted"
    /\ Len(requests) >= 2
    /\ ~requests[Len(requests)].ok
    /\ IsWrite(requests[Len(requests)])
    /\ \E k \in DOMAIN requests :
          /\ requests[k].method = "POST"
          /\ requests[k].ok
          /\ \E j \in DOMAIN incidents :
                InstantOf(incidents[j].scheduled_for)
                    = InstantOf(requests[k].payload.scheduled_for)

(***************************************************************************)
(* C9: when a completed run follows an aborted one, it issues a POST only  *)
(* for windows the aborted run wrote nothing for and a PATCH for the       *)
(* windows it wrote, so no window has a POST in both runs.                 *)
(***************************************************************************)
Performed(reqs, j) == \E k \in WritesFor(reqs, j) : reqs[k].ok

C9_RecoveryAfterPartialRun ==
    (prev.pc = "aborted" /\ pc = "done") =>
        \A k \in DOMAIN requests :
            IsWrite(requests[k]) =>
                /\ requests[k].method = "POST" => ~Performed(prev.requests, requests[k].w)
                /\ Performed(prev.requests, requests[k].w) =>
                      /\ requests[k].method = "PATCH"
                      /\ prev.windows[requests[k].w] = WindowOf(requests[k])

C9_Witness ==
    /\ prev.pc = "aborted"
    /\ pc = "done"
    /\ \E k \in DOMAIN prev.requests :
          prev.requests[k].method = "POST" /\ prev.requests[k].ok
    /\ \E k \in DOMAIN requests : requests[k].method = "PATCH"
    /\ \E k \in DOMAIN requests : requests[k].method = "POST"

(***************************************************************************)
(* C10: for a timestamp of the fixed pattern whose fifth field resolves to *)
(* a zone in which the local time of the other fields occurs exactly once, *)
(* the result is that local time less the offset the zone has at it: the   *)
(* instant returned, shown in the zone, reads as the local time again.     *)
(***************************************************************************)
WellFormed(parts) ==
    /\ Len(parts) = 6
    /\ parts[1] \in Weekdays /\ parts[2] \in Months /\ parts[3] \in Days
    /\ parts[4] \in Times /\ parts[6] \in Years

NaiveOf(parts) == (MonthStart(parts[2]) + DayOf(parts[3]) - 1) * 24 + HourOf(parts[4])

InstantsAt(zone, t) == {u \in (t - 12)..(t + 12) : u + OffsetAtUtc(zone, u) = t}

IgnoringCase(abbrev) ==
    CASE abbrev = "CEST" -> {"CEST", "cest", "Cest"}
      [] abbrev = "CET"  -> {"CET", "cet", "Cet"}
      [] abbrev = "CST"  -> {"CST", "cst"}
      [] OTHER           -> {abbrev}

\* the zones that have used the token as an abbreviation
ZonesUsing(token) ==
    {z \in Range(all_timezones) :
        \E abbrev \in AbbrevsOf(z) : token \in IgnoringCase(abbrev)}

\* the token of the call is neither a zone identifier nor an integer
IsAbbreviationCall ==
    /\ parsed.state # "none"
    /\ Len(ts) >= 2
    /\ TzField(ts) \notin Range(all_timezones)
    /\ TzField(ts) \notin IntLiterals

\* C11: for a token that is neither a zone identifier nor an integer and that
\* some zone has used as an abbreviation (letter case ignored),
\* get_timezone_name returns one of the zones that used it, no other zone that
\* used it has a strictly shorter identifier, and a single matching zone is
\* the one returned.
C11_ShortestMatchingZone ==
    (IsAbbreviationCall /\ ZonesUsing(TzField(ts)) # {}) =>
        /\ parsed.actual_tz.kind = "tz"
        /\ parsed.actual_tz.zone \in ZonesUsing(TzField(ts))
        /\ \A y \in ZonesUsing(TzField(ts)) :
               Len(y) >= Len(parsed.actual_tz.zone)
        /\ \A y \in ZonesUsing(TzField(ts)) :
               ZonesUsing(TzField(ts)) = {y} => parsed.actual_tz.zone = y

\* "cest" is used by CET and by Europe/Zurich; the shorter CET is returned
C11_Witness ==
    /\ IsAbbreviationCall
    /\ TzField(ts) = "cest"
    /\ ZonesUsing(TzField(ts)) = {"CET", "Europe/Zurich"}
    /\ parsed.actual_tz = [kind |-> "tz", zone |-> "CET"]

\* C12: two calls of get_timezone_name with the same token, in the same run or
\* in different runs, return the same zone, also for an abbreviation that
\* several zones have used.
C12_SameTokenSameZone ==
    parsed.state = "returned_twice" => parsed.other_tz = parsed.actual_tz

\* the name the claim gives the zone of an integer token: "Etc/GMT" followed
\* by the integer with its sign
EtcName(token) ==
    CASE token = "2"  -> "Etc/GMT+2"
      [] token = "+2" -> "Etc/GMT+2"
      [] token = "-3" -> "Etc/GMT-3"
      [] token = "0"  -> "Etc/GMT0"

\* C13: for a token that is an integer n, get_timezone_name returns a zone of
\* the kind its other branches return, named "Etc/GMT" followed by n with its
\* sign, and a well-formed timestamp carrying that token parses to a UTC
\* instant instead of failing.
C13_IntegerTokenParses ==
    (/\ parsed.state # "none"
     /\ WellFormed(ts)
     /\ TzField(ts) \in IntLiterals)
    => /\ parsed.actual_tz = [kind |-> "tz", zone |-> EtcName(TzField(ts))]
       /\ parsed.result.ok

(***************************************************************************)
(* Vocabulary for the claims about a run that meets an unknown token.      *)
(***************************************************************************)
\* not an identifier, not an integer, never used as an abbreviation
Unresolvable(token) ==
    /\ token \notin Range(all_timezones)
    /\ token \notin IntLiterals
    /\ ZonesUsing(token) = {}

\* the tokens of the feed's timestamps that match no zone
UnknownTokens == {token \in {TzField(stamp) : stamp \in FeedStamps} : Unresolvable(token)}

HasUnresolvable(m) ==
    IsDataMessage(m) /\ (TzField(m.from) \in UnknownTokens \/ TzField(m.to) \in UnknownTokens)

\* C14: when the from or the to timestamp of some DATA_MESSAGE record of the
\* feed carries a token that matches no zone, get_timezone_name raises for
\* that token instead of returning a zone, and the run never gets past
\* reading the feed: it sends no request to the status page, neither a page
\* request nor a write.
C14_UnresolvableAborts ==
    \A k \in DOMAIN feed :
        HasUnresolvable(feed[k]) =>
            /\ pc \in {"start", "aborted"}
            /\ pc = "aborted" => \A order \in SetOrders : Raises(feed[k], order)
            /\ \A i \in DOMAIN requests : requests[i].url = "availability"

\* a record that no filter would keep, with the unknown token in "to", has
\* aborted a run whose registry request succeeded
C14_Witness ==
    /\ \E k \in DOMAIN feed :
          /\ HasUnresolvable(feed[k])
          /\ TzField(feed[k].to) \in UnknownTokens
          /\ TzField(feed[k].from) \notin UnknownTokens
          /\ feed[k].environment = "test"
    /\ pc = "aborted"
    /\ Len(requests) = 1
    /\ requests[1].ok

(***************************************************************************)
(* Vocabulary for the claims about the target of a write.                  *)
(***************************************************************************)
\* positions in the fetched snapshot of the eligible incidents that start at
\* the instant of the window a write was made for
SameStart(r) ==
    {i \in DOMAIN out :
        /\ out[i].status = "scheduled"
        /\ out[i].impact = "maintenance"
        /\ InstantOf(out[i].scheduled_for) = WindowOf(r).from_time}

\* C15: when several eligible incidents of the snapshot start at a window's
\* from_time, the PATCH for that window targets the id of the last of them in
\* snapshot order, and no write for that window targets an earlier one.
C15_LastMatchIsTarget ==
    \A k \in DOMAIN requests :
        requests[k].method = "PATCH" =>
            LET r    == requests[k]
                same == SameStart(r)
            IN  /\ same # {}
                /\ \E i \in same :
                      /\ \A j \in same : j <= i
                      /\ r.id = out[i].id
                      /\ \A j \in same, q \in WritesFor(requests, r.w) :
                            out[j].id # out[i].id => requests[q].id # out[j].id

\* two eligible incidents with the window's start: the second is the target
C15_Witness ==
    \E k \in DOMAIN requests :
        /\ requests[k].method = "PATCH"
        /\ SameStart(requests[k]) = {1, 2}
        /\ out[1].id = 1
        /\ requests[k].id = 2

\* the windows of the current run that passed the filters and start at the
\* instant an incident is scheduled for
WindowsStartingAt(m) ==
    {j \in DOMAIN switch_maintenance :
        /\ switch_maintenance[j].environment = "production"
        /\ "epp.nic.ch" \in Range(switch_maintenance[j].systems)
        /\ switch_maintenance[j].from_time = InstantOf(m.scheduled_for)}

\* C16: no step of a run removes an incident from the status page; the only
\* requests are GET, POST and PATCH; a PATCH goes to an incident scheduled for
\* the from_time of the filtered window it is made for; and an incident
\* scheduled for the from_time of no filtered window is left as it was.
C16_NoDeleteNoStrayWrite ==
    [][ /\ incidents' # incidents =>
              /\ Len(incidents') >= Len(incidents)
              /\ \A k \in DOMAIN incidents :
                    /\ incidents'[k].id = incidents[k].id
                    /\ WindowsStartingAt(incidents[k]) = {} => incidents'[k] = incidents[k]
        /\ Len(requests') = Len(requests) + 1 =>
              LET r == requests'[Len(requests')]
              IN  /\ r.method \in {"GET", "POST", "PATCH"}
                  /\ r.method = "PATCH" =>
                        \E k \in DOMAIN incidents :
                            /\ incidents[k].id = r.id
                            /\ r.w \in WindowsStartingAt(incidents[k])
      ]_vars

\* an incident has been updated while another one, scheduled for the start of
\* no window, is on the status page
C16_Witness ==
    /\ \E k \in DOMAIN requests : requests[k].method = "PATCH" /\ requests[k].ok
    /\ \E k \in DOMAIN incidents :
          /\ WindowsStartingAt(incidents[k]) = {}
          /\ incidents[k].status = "scheduled"
          /\ incidents[k].impact = "maintenance"

\* the successful POSTs of the run before the current one
CreatedBefore == {q \in DOMAIN prev.requests :
                     prev.requests[q].method = "POST" /\ prev.requests[q].ok}

\* C17: the payload of every write for a window w has scheduled_for at
\* w.from_time, scheduled_until at w.to_time, status "scheduled" and
\* impact_override "maintenance"; a successful PATCH leaves the start instant
\* of its target as it was; a successful POST adds an eligible incident that
\* starts at w.from_time; and a later run over the same feed that has read
\* the status page finds, for every window the run before it created an
\* incident for, an eligible incident starting at that window's from_time.
C17_PayloadMirrorsWindow ==
    [][ /\ Len(requests') = Len(requests) + 1 /\ IsWrite(requests'[Len(requests')]) =>
              LET r == requests'[Len(requests')]
                  w == switch_maintenance[r.w]
              IN  /\ InstantOf(r.payload.scheduled_for) = w.from_time
                  /\ InstantOf(r.payload.scheduled_until) = w.to_time
                  /\ r.payload.status = "scheduled"
                  /\ r.payload.impact_override = "maintenance"
                  /\ (r.method = "PATCH" /\ r.ok) =>
                        \A k \in DOMAIN incidents :
                            incidents[k].id = r.id =>
                                InstantOf(incidents'[k].scheduled_for)
                                    = InstantOf(incidents[k].scheduled_for)
                  /\ (r.method = "POST" /\ r.ok) =>
                        LET m == incidents'[Len(incidents')]
                        IN  /\ Len(incidents') = Len(incidents) + 1
                            /\ m.status = "scheduled"
                            /\ m.impact = "maintenance"
                            /\ InstantOf(m.scheduled_for) = w.from_time
        /\ pc' \in {"reconcile", "done"} =>
              \A q \in CreatedBefore' :
                  /\ switch_maintenance'[prev'.requests[q].w]
                         = prev'.windows[prev'.requests[q].w]
                  /\ \E m \in Eligible' :
                        InstantOf(m.scheduled_for)
                            = switch_maintenance'[prev'.requests[q].w].from_time
      ]_vars

\* the run after a Create has updated the created incident for the same window
C17_Witness ==
    \E q \in CreatedBefore : \E k \in DOMAIN requests :
        /\ requests[k].method = "PATCH"
        /\ requests[k].ok
        /\ requests[k].w = prev.requests[q].w
        /\ \E i \in DOMAIN incidents :
              /\ incidents[i].id = requests[k].id
              /\ i > Len(incidents) - Cardinality(CreatedBefore)
              /\ InstantOf(incidents[i].scheduled_for) = WindowOf(requests[k]).from_time

\* the successful POSTs of the current run
Created == {k \in DOMAIN requests : requests[k].method = "POST" /\ requests[k].ok}

IsScheduledMaintenance(m) == m.status = "scheduled" /\ m.impact = "maintenance"

\* C18: a run never issues two successful POSTs whose scheduled_for is the
\* same instant, whatever the feed, also when two filtered windows have the
\* same from_time; so a complete run over a status page without duplicates
\* leaves no two scheduled maintenance incidents with the same start instant.
C18_NoTwoCreatesSameStart ==
    /\ \A j, k \in Created :
          j # k
          => InstantOf(requests[j].payload.scheduled_for)
                 # InstantOf(requests[k].payload.scheduled_for)
    /\ (/\ run = 1
        /\ pc = "done"
        /\ \A i, j \in 1..(Len(incidents) - Cardinality(Created)) :
              (i # j /\ IsScheduledMaintenance(incidents[i])
                     /\ IsScheduledMaintenance(incidents[j]))
              => InstantOf(incidents[i].scheduled_for)
                     # InstantOf(incidents[j].scheduled_for))
       => \A i, j \in DOMAIN incidents :
              (i # j /\ IsScheduledMaintenance(incidents[i])
                     /\ IsScheduledMaintenance(incidents[j]))
              => InstantOf(incidents[i].scheduled_for)
                     # InstantOf(incidents[j].scheduled_for)

\* C19: on every day the job runs, the 29 February of a leap year included,
\* a run that has left get_switch_maintenance's first lines has sent the
\* registry GET as its first request, with start at today and end at the same
\* day of the next year.
C19_RegistryGetOnEveryDate ==
    pc # "start" =>
        /\ requests # <<>>
        /\ requests[1].method = "GET"
        /\ requests[1].url = "availability"
        /\ requests[1].params.start = <<today.day, today.month, today.year>>
        /\ requests[1].params.end = <<today.day, today.month, today.year + 1>>

====
